---------------------------- MODULE Spec2Model ----------------------------
(***************************************************************************)
(* Model of .github/scripts/refresh_prompts.py: the prompt refresher that  *)
(* validates a markdown prompt file and stamps it with a                    *)
(* "<!-- run_metadata: last_checked=YYYY-MM-DD -->" tag.                    *)
(*                                                                         *)
(* Text is a sequence of characters (one-character strings; a character    *)
(* outside ASCII is written by its code point, e.g. "U+0663").  A file is   *)
(* the sequence of characters stored on disk, before newline translation.  *)
(***************************************************************************)
EXTENDS Integers, Sequences, FiniteSets, TLC

(***************************************************************************)
(* Bounds of the model.                                                    *)
(***************************************************************************)
MaxPieces == 2
MaxRuns == 3

(***************************************************************************)
(* Program constants and literals.                                         *)
(***************************************************************************)
PROMPTS_DIR == ".github/prompts"
TARGET_FILE == "migrate-cypress-to-playwright.prompt.md"
\* os.path.join(PROMPTS_DIR, TARGET_FILE), relative to the working directory.
PrimaryPath == <<PROMPTS_DIR, TARGET_FILE>>
\* os.path.join(root_dir, PROMPTS_DIR, TARGET_FILE), root_dir two levels
\* above the directory of the script.
FallbackPath == <<"root_dir", PROMPTS_DIR, TARGET_FILE>>
Paths == {PrimaryPath, FallbackPath}

required_sections ==
    << <<"M", "i", "g", "r", "a", "t", "i", "o", "n", " ", "I", "n", "s", "t", "r", "u", "c", "t", "i", "o", "n", "s">>,
       <<"P", "h", "a", "s", "e", " ", "1">>,
       <<"P", "h", "a", "s", "e", " ", "2">>,
       <<"P", "h", "a", "s", "e", " ", "3">>,
       <<"F", "i", "n", "a", "l", " ", "C", "h", "e", "c", "k", "l", "i", "s", "t">> >>

TagPrefix ==
    <<"<", "!", "-", "-", " ", "r", "u", "n", "_", "m", "e", "t", "a", "d", "a", "t", "a", ":", " ",
      "l", "a", "s", "t", "_", "c", "h", "e", "c", "k", "e", "d", "=">>
TagSuffix == <<" ", "-", "-", ">">>

AsciiDigits == <<"0", "1", "2", "3", "4", "5", "6", "7", "8", "9">>
\* Python 3 matches \d against every Unicode decimal digit, not only 0-9;
\* the Arabic-Indic digits stand for the digits outside ASCII.
UnicodeDigits == {"U+0660", "U+0661", "U+0662", "U+0663"}
\* The characters str.strip() removes (str.isspace()).
Whitespace == {" ", "\t", "\n", "\r", "\f", "U+000B", "U+001C", "U+001D", "U+001E",
               "U+001F", "U+0085", "U+00A0", "U+2028", "U+2029"}

(***************************************************************************)
(* Pure text functions.                                                    *)
(***************************************************************************)
Range(s) == {s[i] : i \in 1..Len(s)}

IsDigit(c) == c \in Range(AsciiDigits) \cup UnicodeDigits

\* One element of the regular expression: a literal character or \d.
Lit(c) == [kind |-> "lit", ch |-> c]
AnyDigit == [kind |-> "digit", ch |-> ""]
Lits(s) == [i \in 1..Len(s) |-> Lit(s[i])]

\* r"<!-- run_metadata: last_checked=\d{4}-\d{2}-\d{2} -->"
pattern ==
    Lits(TagPrefix)
      \o <<AnyDigit, AnyDigit, AnyDigit, AnyDigit, Lit("-"), AnyDigit, AnyDigit,
           Lit("-"), AnyDigit, AnyDigit>>
      \o Lits(TagSuffix)

ItemMatches(item, c) == IF item.kind = "digit" THEN IsDigit(c) ELSE c = item.ch

\* The pattern matches s at position i.
MatchAt(s, i) ==
    /\ i >= 1
    /\ i + Len(pattern) - 1 <= Len(s)
    /\ \A k \in 1..Len(pattern) : ItemMatches(pattern[k], s[i + k - 1])

\* re.search(pattern, s) finds a match.
re_search(s) == \E i \in 1..Len(s) : MatchAt(s, i)

\* The first position from i on at which the pattern matches, 0 if none.
NextMatch(s, i) ==
    LET at == {j \in i..Len(s) : MatchAt(s, j)}
    IN  IF at = {} THEN 0 ELSE CHOOSE j \in at : \A k \in at : j <= k

\* re.sub(pattern, repl, s): every non-overlapping match, scanning from the
\* left, is replaced by repl (repl holds no backslash, so it is taken
\* literally).
RECURSIVE SubFrom(_, _, _)
SubFrom(repl, s, i) ==
    LET j == NextMatch(s, i)
    IN  IF j = 0 THEN SubSeq(s, i, Len(s))
        ELSE SubSeq(s, i, j - 1) \o repl \o SubFrom(repl, s, j + Len(pattern))

\* A slip: re.sub(..., count=1), only the first match replaced.
re_sub_first(repl, s) ==
    LET j == NextMatch(s, 1)
    IN  IF j = 0 THEN s
        ELSE SubSeq(s, 1, j - 1) \o repl \o SubSeq(s, j + Len(pattern), Len(s))

re_sub(repl, s) == SubFrom(repl, s, 1)

\* str.lstrip(): from the first character that is not whitespace.
lstrip(s) ==
    LET ns == {i \in 1..Len(s) : s[i] \notin Whitespace}
    IN  IF ns = {} THEN <<>>
        ELSE SubSeq(s, CHOOSE i \in ns : \A k \in ns : i <= k, Len(s))

\* str.rstrip(): up to the last character that is not whitespace.
rstrip(s) ==
    LET ns == {i \in 1..Len(s) : s[i] \notin Whitespace}
    IN  IF ns = {} THEN <<>>
        ELSE SubSeq(s, 1, CHOOSE i \in ns : \A k \in ns : i >= k)

\* A slip: rstrip() where strip() is meant.
strip_right_only(s) == rstrip(s)

\* str.strip()
strip(s) == rstrip(lstrip(s))

\* section in content
Contains(sub, s) ==
    \E i \in 1..(Len(s) - Len(sub) + 1) : SubSeq(s, i, i + Len(sub) - 1) = sub

\* datetime.date.isoformat(): a date <<year, month, day>> as YYYY-MM-DD,
\* zero padded.
Digit(n) == AsciiDigits[n + 1]
Pad2(n) == <<Digit((n \div 10) % 10), Digit(n % 10)>>
Pad4(n) == <<Digit((n \div 1000) % 10), Digit((n \div 100) % 10)>> \o Pad2(n)
isoformat(date) == Pad4(date[1]) \o <<"-">> \o Pad2(date[2]) \o <<"-">> \o Pad2(date[3])

\* A slip: the date written without zero padding.
Unpadded(n) == IF n < 10 THEN <<Digit(n)>> ELSE Pad2(n)
metadata_tag_unpadded(date) ==
    TagPrefix \o Pad4(date[1]) \o <<"-">> \o Unpadded(date[2]) \o <<"-">>
      \o Unpadded(date[3]) \o TagSuffix

\* f"<!-- run_metadata: last_checked={today} -->"
metadata_tag(date) == TagPrefix \o isoformat(date) \o TagSuffix

\* A slip: the tag appended without a search for an existing one.
StampedAppendOnly(text, date) ==
    strip(text) \o <<"\n", "\n">> \o metadata_tag(date) \o <<"\n">>

\* The tag step of refresh_prompt: replace every tag, or append one.
Stamped(text, date) ==
    IF re_search(text) THEN re_sub(metadata_tag(date), text)
    ELSE strip(text) \o <<"\n", "\n">> \o metadata_tag(date) \o <<"\n">>

\* What the character at position i of the stored data reads as with
\* universal newlines: "\r\n" and "\r" read as "\n".
ReadChar(data, i) ==
    IF data[i] = "\r" THEN <<"\n">>
    ELSE IF data[i] = "\n" /\ i > 1 /\ data[i - 1] = "\r" THEN <<>>
    ELSE <<data[i]>>

RECURSIVE ReadRange(_, _, _)
ReadRange(data, lo, hi) ==
    IF lo > hi THEN <<>>
    ELSE IF lo = hi THEN ReadChar(data, lo)
    ELSE LET mid == (lo + hi) \div 2
         IN  ReadRange(data, lo, mid) \o ReadRange(data, mid + 1, hi)

\* open(path, "r", encoding="utf-8").read()
ReadText(data) == ReadRange(data, 1, Len(data))

RECURSIVE WriteRange(_, _, _, _)
WriteRange(text, sep, lo, hi) ==
    IF lo > hi THEN <<>>
    ELSE IF lo = hi THEN (IF text[lo] = "\n" THEN sep ELSE <<text[lo]>>)
    ELSE LET mid == (lo + hi) \div 2
         IN  WriteRange(text, sep, lo, mid) \o WriteRange(text, sep, mid + 1, hi)

\* What f.write(text) stores: every "\n" becomes the platform's os.linesep.
WriteText(text, sep) == WriteRange(text, sep, 1, Len(text))

\* The bytes written at offset 0 of a file holding old: what lies beyond the
\* written data stays.
WriteAt(old, data) == data \o SubSeq(old, Len(data) + 1, Len(old))

(***************************************************************************)
(* The state: the clock, the platform, the file system, and for each       *)
(* running instance of the script its position and local variables.        *)
(***************************************************************************)
VARIABLES
    today,        \* the calendar date, <<year, month, day>>
    linesep,      \* os.linesep of the platform
    dirExists,    \* os.path.exists(PROMPTS_DIR) in the working directory
    files,        \* path -> [exists, data]
    pc,           \* instance -> position in the script
    path,         \* instance -> file_path / target_path
    content,      \* instance -> content
    new_content,  \* instance -> new_content
    ret,          \* instance -> value returned by refresh_prompt
    log,          \* instance -> lines printed, as <<kind, argument>>
    opened,       \* instance -> modes in which the run opened the file
    history,      \* completed runs, oldest first
    orig,         \* the file system in the initial state
    lastWriter,   \* the instance whose f.write happened last (0: none)
    lastData      \* the data that instance wrote

vars == <<today, linesep, dirExists, files, pc, path, content, new_content,
          ret, log, opened, history, orig, lastWriter, lastData>>

Procs == {1, 2}
NoValue == "none"
Missing == [exists |-> FALSE, data |-> <<>>]
File(data) == [exists |-> TRUE, data |-> data]

LF == <<"\n">>
CRLF == <<"\r", "\n">>

FirstDate == <<2026, 11, 2>>
StaleDate == <<987, 6, 5>>
Dates == {FirstDate, <<2026, 11, 3>>, <<2027, 1, 1>>}
Later(a, b) ==
    \/ a[1] > b[1]
    \/ a[1] = b[1] /\ a[2] > b[2]
    \/ a[1] = b[1] /\ a[2] = b[2] /\ a[3] > b[3]

(***************************************************************************)
(* The documents the model starts from: pieces of text put together.       *)
(***************************************************************************)
UnicodeTag ==
    TagPrefix \o <<"U+0662", "U+0660", "U+0662", "U+0660", "-", "U+0660", "U+0661",
                   "-", "U+0660", "U+0663">> \o TagSuffix
\* One digit short of a date: no match of the pattern.
MalformedTag == TagPrefix \o <<"2", "0", "2", "0", "-", "1", "-", "0", "1">> \o TagSuffix

Pieces == { <<"x">>, <<"\n">>, <<"\r">>, metadata_tag(FirstDate), metadata_tag(StaleDate) }

RECURSIVE Concat(_)
Concat(ss) == IF ss = <<>> THEN <<>> ELSE Head(ss) \o Concat(Tail(ss))

PieceSeqs == UNION {[1..n -> Pieces] : n \in 0..MaxPieces}

\* The section names of the set S of indices, one per line.
RECURSIVE SectionsFrom(_, _)
SectionsFrom(S, i) ==
    IF i > Len(required_sections) THEN <<>>
    ELSE (IF i \in S THEN required_sections[i] \o <<"\n">> ELSE <<>>)
           \o SectionsFrom(S, i + 1)
SectionsText(S) == SectionsFrom(S, 1)

AllSections == 1..Len(required_sections)
CoreBodies ==
    { <<"x">>, metadata_tag(StaleDate), <<"x", "\n">> \o metadata_tag(FirstDate) }
OddBodies ==
    { <<" ", "\t">>, <<" ", "x", " ", "y", "U+00A0", "\n">>, UnicodeTag, MalformedTag,
      <<"x">> \o UnicodeTag \o <<"\r", "\n">> \o metadata_tag(StaleDate),
      MalformedTag \o metadata_tag(StaleDate) \o <<"\n">>,
      SectionsText({2}) \o <<"\r", "\n">> \o metadata_tag(FirstDate) \o <<"\r">> }

InitContents ==
    {SectionsText(S) \o b : S \in SUBSET AllSections, b \in CoreBodies}
      \cup {Concat(ps) : ps \in PieceSeqs}
      \cup OddBodies

InitLocals ==
    /\ content = [p \in Procs |-> <<>>]
    /\ new_content = [p \in Procs |-> <<>>]
    /\ ret = [p \in Procs |-> NoValue]
    /\ log = [p \in Procs |-> <<>>]
    /\ opened = [p \in Procs |-> {}]
    /\ history = <<>>
    /\ lastWriter = 0
    /\ lastData = <<>>

\* refresh_prompt(PrimaryPath), called again and again by one instance.
Init ==
    /\ today = FirstDate
    /\ linesep \in {LF, CRLF}
    /\ dirExists = TRUE
    /\ \E f \in {File(c) : c \in InitContents} \cup {Missing} :
          files = [q \in Paths |-> IF q = PrimaryPath THEN f ELSE Missing]
    /\ orig = files
    /\ pc = [p \in Procs |-> IF p = 1 THEN "exists" ELSE "off"]
    /\ path = [p \in Procs |-> PrimaryPath]
    /\ InitLocals

(***************************************************************************)
(* The steps of the script.                                                *)
(***************************************************************************)
\* The record of a completed run: who ran, on what day, what the file holds
\* as the run returns, the value returned and the branch taken.
Run(p, r, branch, f) ==
    [by |-> p, day |-> today, file |-> f, ret |-> r, opened |-> opened[p],
     branch |-> branch]

\* __main__: the target path, or the one under the script's root when
\* PROMPTS_DIR does not exist in the working directory.
\* A slip: the fallback taken when the target file, not the directory, is
\* missing.
ResolveTargetByFile == IF ~files[PrimaryPath].exists THEN FallbackPath ELSE PrimaryPath

ResolveTarget == IF ~dirExists THEN FallbackPath ELSE PrimaryPath

Main(p) ==
    /\ pc[p] = "main"
    /\ path' = [path EXCEPT ![p] = ResolveTarget]
    /\ pc' = [pc EXCEPT ![p] = "exists"]
    /\ UNCHANGED <<today, linesep, dirExists, files, content, new_content, ret,
                   log, opened, history, orig, lastWriter, lastData>>

\* The values refresh_prompt returns.
NotFoundReturn == FALSE
NoChangeReturn == FALSE
UpdatedReturn == TRUE

\* A slip: the missing file reported, but no return.
CheckExistsNoReturn(p) ==
    /\ pc[p] = "exists"
    /\ log' = [log EXCEPT ![p] =
                 IF files[path[p]].exists THEN Append(@, <<"Checking", path[p]>>)
                 ELSE @ \o << <<"Checking", path[p]>>, <<"ERROR", path[p]>> >>]
    /\ pc' = [pc EXCEPT ![p] = "read"]
    /\ UNCHANGED <<today, linesep, dirExists, files, path, content, new_content,
                   ret, opened, history, orig, lastWriter, lastData>>

\* print("Checking ..."); if not os.path.exists(file_path): ... return False
CheckExists(p) ==
    /\ pc[p] = "exists"
    /\ IF files[path[p]].exists
       THEN /\ log' = [log EXCEPT ![p] = Append(@, <<"Checking", path[p]>>)]
            /\ pc' = [pc EXCEPT ![p] = "read"]
            /\ UNCHANGED <<ret, history>>
       ELSE /\ log' = [log EXCEPT ![p] = @ \o << <<"Checking", path[p]>>,
                                                 <<"ERROR", path[p]>> >>]
            /\ ret' = [ret EXCEPT ![p] = NotFoundReturn]
            /\ pc' = [pc EXCEPT ![p] = "done"]
            /\ history' = Append(history, Run(p, NotFoundReturn, "NOT_FOUND", files[path[p]]))
    /\ UNCHANGED <<today, linesep, dirExists, files, path, content, new_content,
                   opened, orig, lastWriter, lastData>>

\* with open(file_path, "r", encoding="utf-8") as f: content = f.read()
\* (a file that is not there makes open() raise FileNotFoundError, which
\* nothing catches)
ReadFile(p) ==
    /\ pc[p] = "read"
    /\ IF files[path[p]].exists
       THEN /\ opened' = [opened EXCEPT ![p] = @ \cup {"r"}]
            /\ content' = [content EXCEPT ![p] = ReadText(files[path[p]].data)]
            /\ pc' = [pc EXCEPT ![p] = "validate"]
       ELSE /\ pc' = [pc EXCEPT ![p] = "raised"]
            /\ UNCHANGED <<opened, content>>
    /\ UNCHANGED <<today, linesep, dirExists, files, path, new_content, ret, log,
                   history, orig, lastWriter, lastData>>

\* The warnings of the validation loop, in the order of required_sections.
RECURSIVE Warnings(_, _)
Warnings(text, i) ==
    IF i > Len(required_sections) THEN <<>>
    ELSE (IF ~Contains(required_sections[i], text) THEN << <<"WARNING", i>> >> ELSE <<>>)
           \o Warnings(text, i + 1)

\* A slip: a missing section ends the run.
ValidateAbort(p) ==
    /\ pc[p] = "validate"
    /\ log' = [log EXCEPT ![p] = @ \o Warnings(content[p], 1)]
    /\ IF Warnings(content[p], 1) = <<>>
       THEN /\ pc' = [pc EXCEPT ![p] = "stamp"]
            /\ UNCHANGED <<ret, history>>
       ELSE /\ pc' = [pc EXCEPT ![p] = "done"]
            /\ ret' = [ret EXCEPT ![p] = FALSE]
            /\ history' = Append(history, Run(p, FALSE, "ABORTED", files[path[p]]))
    /\ UNCHANGED <<today, linesep, dirExists, files, path, content, new_content,
                   opened, orig, lastWriter, lastData>>

\* for section in required_sections: if section not in content: print(...)
Validate(p) ==
    /\ pc[p] = "validate"
    /\ log' = [log EXCEPT ![p] = @ \o Warnings(content[p], 1)]
    /\ pc' = [pc EXCEPT ![p] = "stamp"]
    /\ UNCHANGED <<today, linesep, dirExists, files, path, content, new_content,
                   ret, opened, history, orig, lastWriter, lastData>>

\* today = ...; if re.search(pattern, content): ... else: ...
Stamp(p) ==
    /\ pc[p] = "stamp"
    /\ new_content' = [new_content EXCEPT ![p] = Stamped(content[p], today)]
    /\ log' = [log EXCEPT ![p] =
                 Append(@, IF re_search(content[p]) THEN <<"Updated", "">>
                           ELSE <<"Appended", "">>)]
    /\ pc' = [pc EXCEPT ![p] = "compare"]
    /\ UNCHANGED <<today, linesep, dirExists, files, path, content, ret, opened,
                   history, orig, lastWriter, lastData>>

\* A slip: the file written whether or not the text changed.
ChangedAlways(p) == TRUE

\* if new_content != content
Changed(p) == new_content[p] # content[p]

\* open(file_path, "w", encoding="utf-8"): the file is truncated.
OpenForWrite(p) ==
    /\ pc[p] = "compare"
    /\ Changed(p)
    /\ opened' = [opened EXCEPT ![p] = @ \cup {"w"}]
    /\ files' = [files EXCEPT ![path[p]] = File(<<>>)]
    /\ pc' = [pc EXCEPT ![p] = "write"]
    /\ UNCHANGED <<today, linesep, dirExists, path, content, new_content, ret, log,
                   history, orig, lastWriter, lastData>>

\* f.write(new_content), flushed from offset 0 as the file is closed;
\* print("SUCCESS ..."); return True
WriteFile(p) ==
    /\ pc[p] = "write"
    /\ LET data == WriteText(new_content[p], linesep)
       IN  /\ files' = [files EXCEPT ![path[p]] = File(WriteAt(@.data, data))]
           /\ lastWriter' = p
           /\ lastData' = data
           /\ history' = Append(history, Run(p, UpdatedReturn, "WRITTEN", File(WriteAt(files[path[p]].data, data))))
    /\ log' = [log EXCEPT ![p] = Append(@, <<"SUCCESS", path[p]>>)]
    /\ ret' = [ret EXCEPT ![p] = UpdatedReturn]
    /\ pc' = [pc EXCEPT ![p] = "done"]
    /\ UNCHANGED <<today, linesep, dirExists, path, content, new_content, opened,
                   orig>>

\* else: print("No changes needed ..."); return False
NoChange(p) ==
    /\ pc[p] = "compare"
    /\ ~Changed(p)
    /\ log' = [log EXCEPT ![p] = Append(@, <<"No changes needed", path[p]>>)]
    /\ ret' = [ret EXCEPT ![p] = NoChangeReturn]
    /\ pc' = [pc EXCEPT ![p] = "done"]
    /\ history' = Append(history, Run(p, NoChangeReturn, "UNCHANGED", files[path[p]]))
    /\ UNCHANGED <<today, linesep, dirExists, files, path, content, new_content,
                   opened, orig, lastWriter, lastData>>

\* The script is run once more.
Rerun(p) ==
    /\ pc[p] = "done"
    /\ Len(history) < MaxRuns
    /\ pc' = [pc EXCEPT ![p] = "exists"]
    /\ content' = [content EXCEPT ![p] = <<>>]
    /\ new_content' = [new_content EXCEPT ![p] = <<>>]
    /\ ret' = [ret EXCEPT ![p] = NoValue]
    /\ log' = [log EXCEPT ![p] = <<>>]
    /\ opened' = [opened EXCEPT ![p] = {}]
    /\ UNCHANGED <<today, linesep, dirExists, files, path, history, orig,
                   lastWriter, lastData>>

\* Midnight passes between two runs (a run reads the date once, so a date
\* that changes during a run is a date that changed before or after it).
NewDay ==
    /\ \A p \in Procs : pc[p] \in {"done", "off"}
    /\ Len(history) < MaxRuns
    /\ \E d \in Dates : Later(d, today) /\ today' = d
    /\ UNCHANGED <<linesep, dirExists, files, pc, path, content, new_content, ret,
                   log, opened, history, orig, lastWriter, lastData>>

Next ==
    \/ \E p \in Procs :
          \/ CheckExists(p) \/ ReadFile(p) \/ Validate(p) \/ Stamp(p)
          \/ OpenForWrite(p) \/ WriteFile(p) \/ NoChange(p) \/ Rerun(p)
    \/ NewDay

Spec == Init /\ [][Next]_vars

(***************************************************************************)
(* The entry point, run once: the target path is resolved, then refreshed. *)
(***************************************************************************)
MainContents == {SectionsText(S) \o b : S \in {{}, AllSections}, b \in CoreBodies}
MainFiles == {File(c) : c \in MainContents} \cup {Missing}

InitMain ==
    /\ today = FirstDate
    /\ linesep \in {LF, CRLF}
    /\ dirExists \in BOOLEAN
    /\ files \in [Paths -> MainFiles]
    /\ files[PrimaryPath].exists => dirExists
    /\ orig = files
    /\ pc = [p \in Procs |-> IF p = 1 THEN "main" ELSE "off"]
    /\ path = [p \in Procs |-> <<>>]
    /\ InitLocals

NextMain ==
    \E p \in Procs :
       \/ Main(p) \/ CheckExists(p) \/ ReadFile(p) \/ Validate(p) \/ Stamp(p)
       \/ OpenForWrite(p) \/ WriteFile(p) \/ NoChange(p)

SpecMain == InitMain /\ [][NextMain]_vars

(***************************************************************************)
(* Two instances of refresh_prompt run at once on the same existing path.  *)
(***************************************************************************)
ConcContents == CoreBodies \cup {<<>>, SectionsText(AllSections)}

InitConc ==
    /\ today = FirstDate
    /\ linesep \in {LF, CRLF}
    /\ dirExists = TRUE
    /\ \E c \in ConcContents :
          files = [q \in Paths |-> IF q = PrimaryPath THEN File(c) ELSE Missing]
    /\ orig = files
    /\ pc = [p \in Procs |-> "exists"]
    /\ path = [p \in Procs |-> PrimaryPath]
    /\ InitLocals

NextConc ==
    \E p \in Procs :
       \/ CheckExists(p) \/ ReadFile(p) \/ Validate(p) \/ Stamp(p)
       \/ OpenForWrite(p) \/ WriteFile(p) \/ NoChange(p)

SpecConc == InitConc /\ [][NextConc]_vars

(***************************************************************************)
(* Vocabulary of the properties.                                           *)
(***************************************************************************)
\* Where the tags (the matches of the pattern) of a text start.
TagStarts(s) == {i \in 1..Len(s) : MatchAt(s, i)}
TagCount(s) == Cardinality(TagStarts(s))
TagAt(s, i) == SubSeq(s, i, i + Len(pattern) - 1)
\* The positions of a text that lie inside one of its tags.
InTag(s) ==
    LET ts == TagStarts(s)
    IN  {i \in 1..Len(s) : \E j \in ts : j <= i /\ i < j + Len(pattern)}
\* The text of a file as the script reads it.
TextOf(f) == ReadText(f.data)
\* The last completed run, the one before it, and what the target file held
\* when the last run began (runs of one instance, one after the other).
Last == history[Len(history)]
Previous == history[Len(history) - 1]
FileBefore == IF Len(history) = 1 THEN orig[PrimaryPath] ELSE Previous.file
Stamping(p) == pc[p] \in {"compare", "write"}
Returned(p) == pc[p] = "done"

\* C1: idempotence on a same-day re-run: of two successive runs on the same
\* calendar day on an existing document, the second leaves the file as the
\* first left it, takes the "No changes needed" branch and does not open the
\* file for writing.
C1_SameDayIdempotent ==
    (/\ Returned(1)
     /\ Len(history) >= 2
     /\ Previous.day = Last.day
     /\ Previous.branch # "NOT_FOUND")
       => /\ Last.file = Previous.file
          /\ files[path[1]] = Previous.file
          /\ Last.branch = "UNCHANGED"
          /\ Last.ret = FALSE
          /\ "w" \notin Last.opened

C1_Witness ==
    /\ Returned(1)
    /\ Len(history) = 2
    /\ history[1].day = history[2].day
    /\ history[1].branch = "WRITTEN"
    /\ TagCount(TextOf(orig[PrimaryPath])) = 0
    /\ history[2].branch = "UNCHANGED"

\* C2: tag replacement: when the content read holds at least one tag, the
\* new content has today's tag at every position where the content had a
\* tag, is the content everywhere else, holds as many tags as before, and is
\* what the file reads as once written.
C2_TagReplacement ==
    /\ Stamping(1)
          => LET old == content[1]
                 new == new_content[1]
                 ts == TagStarts(old)
                 inside == InTag(old)
             IN  ts # {}
                   => /\ Len(new) = Len(old)
                      /\ TagStarts(new) = ts
                      /\ \A i \in ts : TagAt(new, i) = metadata_tag(today)
                      /\ \A i \in (1..Len(old)) \ inside : new[i] = old[i]
    /\ (Returned(1) /\ Last.branch = "WRITTEN" /\ TagCount(content[1]) >= 1)
          => TextOf(files[path[1]]) = new_content[1]

C2_Witness ==
    /\ Returned(1)
    /\ Last.branch = "WRITTEN"
    /\ TagCount(content[1]) = 2
    /\ \E i \in TagStarts(content[1]) : TagAt(content[1], i) = metadata_tag(StaleDate)
    /\ Len(content[1]) > 2 * Len(pattern)

\* s with its leading and trailing whitespace taken off is body.
IsStripOf(body, s) ==
    /\ body # <<>> => (body[1] \notin Whitespace /\ body[Len(body)] \notin Whitespace)
    /\ \E a \in 0..Len(s) :
          /\ a + Len(body) <= Len(s)
          /\ SubSeq(s, a + 1, a + Len(body)) = body
          /\ \A i \in (1..a) \cup ((a + Len(body) + 1)..Len(s)) : s[i] \in Whitespace

\* C3: tag append: when the content read holds no tag, the new content is
\* the content without its leading and trailing whitespace, two newlines,
\* today's tag and one newline, and is what the file reads as once written;
\* also for empty and whitespace-only content.
C3_TagAppend ==
    /\ (Stamping(1) /\ TagCount(content[1]) = 0)
          => LET new == new_content[1]
                 tail == <<"\n", "\n">> \o metadata_tag(today) \o <<"\n">>
                 n == Len(new) - Len(tail)
             IN  /\ n >= 0
                 /\ SubSeq(new, n + 1, Len(new)) = tail
                 /\ IsStripOf(SubSeq(new, 1, n), content[1])
    /\ (Returned(1) /\ Last.branch # "NOT_FOUND" /\ TagCount(content[1]) = 0)
          => /\ Last.branch = "WRITTEN"
             /\ TextOf(files[path[1]]) = new_content[1]

C3_Witness ==
    /\ Returned(1)
    /\ Last.branch = "WRITTEN"
    /\ content[1] # <<>>
    /\ content[1][1] \in Whitespace
    /\ content[1][Len(content[1])] \in Whitespace
    /\ strip(content[1]) # <<>>
    /\ TagCount(content[1]) = 0

\* C4: missing file: refresh_prompt on a path that does not exist returns
\* False, opens nothing, leaves the file system as it was (the file is not
\* created) and raises nothing.
C4_MissingFile ==
    ~orig[PrimaryPath].exists
       => /\ files = orig
          /\ opened[1] = {}
          /\ pc[1] \in {"exists", "done"}
          /\ Returned(1)
                => /\ ret[1] = FALSE
                   /\ Last.branch = "NOT_FOUND"
                   /\ Last.ret = FALSE
                   /\ Last.opened = {}
                   /\ ~Last.file.exists

C4_Witness ==
    /\ ~orig[PrimaryPath].exists
    /\ Returned(1)
    /\ Len(history) = 2

\* Every tag of s is the tag of the date, and there is one at least.
AllTagsAre(s, date) ==
    LET ts == TagStarts(s)
    IN  /\ ts # {}
        /\ \A i \in ts : TagAt(s, i) = metadata_tag(date)

\* C5: no-op detection: when the content read holds at least one tag and
\* every tag is today's, the new content is the content read, the file is
\* not opened for writing and holds what it held.
C5_NoOp ==
    /\ (Stamping(1) /\ AllTagsAre(content[1], today))
          => new_content[1] = content[1]
    /\ (Returned(1) /\ FileBefore.exists /\ AllTagsAre(TextOf(FileBefore), Last.day))
          => /\ Last.branch = "UNCHANGED"
             /\ "w" \notin Last.opened
             /\ Last.file = FileBefore
             /\ files[path[1]] = FileBefore

C5_Witness ==
    /\ Returned(1)
    /\ Len(history) = 1
    /\ FileBefore.exists
    /\ TagCount(TextOf(FileBefore)) = 2
    /\ AllTagsAre(TextOf(FileBefore), Last.day)
    /\ Last.branch = "UNCHANGED"
\* C6: the value returned for "no changes needed" differs from the value
\* returned for a file that is not found, so that the caller tells the two
\* apart by the value alone.
C6_NoChangeDistinctFromFailure ==
    (Returned(1) /\ Last.branch = "UNCHANGED") => Last.ret # NotFoundReturn

\* The text around the one tag of s: what comes before it, what comes after.
Outside(s) ==
    LET i == CHOOSE j \in TagStarts(s) : TRUE
    IN  <<SubSeq(s, 1, i - 1), SubSeq(s, i + Len(pattern), Len(s))>>

\* C7: at most one tag is maintained: from a document with no tag or one,
\* after every run (on the same day or a later one) the document holds
\* exactly one tag, the tag of the day of that run, and the text around the
\* tag is the text around it after the first run.
C7_OneTagMaintained ==
    (/\ Returned(1)
     /\ orig[PrimaryPath].exists
     /\ TagCount(TextOf(orig[PrimaryPath])) <= 1)
       => LET now == TextOf(files[path[1]])
          IN  /\ Last.file = files[path[1]]
              /\ TagCount(now) = 1
              /\ AllTagsAre(now, Last.day)
              /\ Outside(now) = Outside(TextOf(history[1].file))

C7_Witness ==
    /\ Returned(1)
    /\ Len(history) = 3
    /\ TagCount(TextOf(orig[PrimaryPath])) = 0
    /\ history[1].day # history[2].day
    /\ history[2].day # history[3].day
    /\ history[3].branch = "WRITTEN"

\* The required sections that a text lacks.
MissingSections(text) == {i \in AllSections : ~Contains(required_sections[i], text)}
WarningsOf(p) == SelectSeq(log[p], LAMBDA e : e[1] = "WARNING")

\* C8: validation is non-blocking: whatever sections the document lacks
\* (all five included), the run ends in the file and the return value that
\* the tag update alone gives, the document carries today's tag, and the
\* check does no more than print one warning for each section that lacks.
C8_ValidationNonBlocking ==
    (Returned(1) /\ FileBefore.exists)
       => LET text == TextOf(FileBefore)
              want == Stamped(text, Last.day)
              warned == WarningsOf(1)
          IN  /\ TextOf(files[path[1]]) = want
              /\ Last.ret = (want # text)
              /\ Last.branch = (IF want # text THEN "WRITTEN" ELSE "UNCHANGED")
              /\ AllTagsAre(TextOf(files[path[1]]), Last.day)
              /\ Len(warned) = Cardinality(MissingSections(text))
              /\ {warned[k][2] : k \in 1..Len(warned)} = MissingSections(text)
              /\ content[1] = text

C8_Witness ==
    /\ Returned(1)
    /\ FileBefore.exists
    /\ MissingSections(TextOf(FileBefore)) = AllSections
    /\ Len(WarningsOf(1)) = Len(required_sections)
    /\ Last.branch = "WRITTEN"

C8_WitnessSome ==
    /\ Returned(1)
    /\ FileBefore.exists
    /\ MissingSections(TextOf(FileBefore)) = {1, 3, 4}
    /\ TagCount(TextOf(FileBefore)) = 1
    /\ Last.branch = "WRITTEN"

\* C9 as claimed: whenever the primary target path does not exist, the
\* entry point refreshes the fallback path.
C9_FallbackWhenTargetMissing ==
    (pc[1] # "main" /\ ~orig[PrimaryPath].exists) => path[1] = FallbackPath

\* C9 as amended: the entry point refreshes the fallback path exactly when
\* the configured directory does not exist in the working directory; when
\* the directory exists and the target file does not, it refreshes the
\* primary path, and no path but the one it refreshes is touched.
C9_FallbackWhenDirectoryMissing ==
    pc[1] # "main"
       => /\ ~dirExists => path[1] = FallbackPath
          /\ dirExists => path[1] = PrimaryPath
          /\ \A q \in Paths \ {path[1]} : files[q] = orig[q]
          /\ Returned(1) => log[1][1] = <<"Checking", path[1]>>

C9_Witness ==
    /\ Returned(1)
    /\ ~dirExists
    /\ path[1] = FallbackPath
    /\ Last.branch = "WRITTEN"

\* C10: two instances at once on the same existing path, the same day: in
\* every interleaving the file ends as the data written by the instance
\* whose write came last, and each instance ends written or unchanged.
C10_LastWriterWins ==
    (\A p \in Procs : Returned(p))
       => /\ lastWriter # 0 => files[PrimaryPath].data = lastData
          /\ \A i \in 1..Len(history) : history[i].branch \in {"WRITTEN", "UNCHANGED"}

=============================================================================
